---- MODULE Spec2Model ----
(***************************************************************************)
(* Model of whatsapp_bot.py: the /whatsapp webhook handler, its helpers    *)
(* and the two tables (users, progress) it reads and writes.               *)
(*                                                                         *)
(* Texts are TLA+ strings; the Python string operations the handler uses   *)
(* (strip, lower, in, startswith, slicing, the URL regex, int, isdigit)    *)
(* are computed character by character.  Dates are day numbers.  A request *)
(* is handled in two steps, one per commit point of the handler:           *)
(* get_or_create_user, then the dispatch on state and command.             *)
(***************************************************************************)
EXTENDS Integers, Sequences, FiniteSets, TLC

\* ------------------------------------------------------------------ bounds
MaxDay == 2

\* --------------------------------------------------------------- constants
None == "<None>"
NoDate == 0
FirstDay == 1
ProofPoints == 100
HistoryLimit == 7
GoalPrefixLen == 5
ProgressPrefixLen == 9

Phones == {"+100", "+200"}
Slots == {1, 2}

\* ------------------------------------------------------------ Python text
Uppers == "ABCDEFGHIJKLMNOPQRSTUVWXYZ"
Lowers == "abcdefghijklmnopqrstuvwxyz"
Digits == "0123456789"

CharAt(s, i) == SubSeq(s, i, i)

IsSpace(c) == c = " "

\* upper-case letter -> lower-case letter
LowerOf ==
    [c \in {CharAt(Uppers, i) : i \in 1..Len(Uppers)} |->
        CharAt(Lowers, CHOOSE i \in 1..Len(Uppers) : CharAt(Uppers, i) = c)]

\* digit character -> its value
DigitOf ==
    [c \in {CharAt(Digits, i) : i \in 1..Len(Digits)} |->
        (CHOOSE i \in 1..Len(Digits) : CharAt(Digits, i) = c) - 1]

LowerChar(c) == IF c \in DOMAIN LowerOf THEN LowerOf[c] ELSE c

RECURSIVE Lower(_)
Lower(s) == IF Len(s) = 0 THEN "" ELSE LowerChar(Head(s)) \o Lower(Tail(s))

RECURSIVE LStrip(_)
LStrip(s) == IF Len(s) > 0 /\ IsSpace(Head(s)) THEN LStrip(Tail(s)) ELSE s

RECURSIVE RStrip(_)
RStrip(s) ==
    IF Len(s) > 0 /\ IsSpace(CharAt(s, Len(s)))
    THEN RStrip(SubSeq(s, 1, Len(s) - 1))
    ELSE s

Strip(s) == RStrip(LStrip(s))

\* s[k:]
SliceFrom(s, k) == IF k >= Len(s) THEN "" ELSE SubSeq(s, k + 1, Len(s))

StartsWith(s, pre) == Len(pre) <= Len(s) /\ SubSeq(s, 1, Len(pre)) = pre

\* sub in s
Contains(s, sub) ==
    \E i \in 1..(Len(s) - Len(sub) + 1) : SubSeq(s, i, i + Len(sub) - 1) = sub

IsDigitChar(c) == c \in DOMAIN DigitOf

\* str.isdigit()
IsDigit(s) == Len(s) > 0 /\ \A i \in 1..Len(s) : IsDigitChar(CharAt(s, i))

RECURSIVE DigitsValue(_)
DigitsValue(s) ==
    IF Len(s) = 0 THEN 0
    ELSE 10 * DigitsValue(SubSeq(s, 1, Len(s) - 1))
         + DigitOf[CharAt(s, Len(s))]

\* int(s): surrounding whitespace and one sign are accepted; anything else
\* raises ValueError
IntBody(s) ==
    LET t == Strip(s)
    IN IF Len(t) > 0 /\ CharAt(t, 1) \in {"+", "-"} THEN SliceFrom(t, 1) ELSE t

IntParses(s) == IsDigit(IntBody(s))

IntValue(s) ==
    LET t == Strip(s)
        v == DigitsValue(IntBody(s))
    IN IF Len(t) > 0 /\ CharAt(t, 1) = "-" THEN 0 - v ELSE v

\* URL_REGEX = (https?://[^\s]+), re.IGNORECASE: a match starts at position i
\* of the text, lower being the text in lower case
UrlStartsAt(lower, i) ==
    \/ /\ i + 7 <= Len(lower)
       /\ SubSeq(lower, i, i + 6) = "http://"
       /\ ~IsSpace(CharAt(lower, i + 7))
    \/ /\ i + 8 <= Len(lower)
       /\ SubSeq(lower, i, i + 7) = "https://"
       /\ ~IsSpace(CharAt(lower, i + 8))

RECURSIVE UpToSpace(_)
UpToSpace(s) ==
    IF Len(s) = 0 \/ IsSpace(Head(s)) THEN "" ELSE Head(s) \o UpToSpace(Tail(s))

Min(S) == CHOOSE x \in S : \A y \in S : x <= y

\* URL_REGEX.search(text): the leftmost match, up to the next whitespace
UrlSearch(text, lower) ==
    IF \E i \in 1..Len(text) : UrlStartsAt(lower, i)
    THEN UpToSpace(SubSeq(text, Min({ i \in 1..Len(text) : UrlStartsAt(lower, i) }),
                          Len(text)))
    ELSE None

\* faulty variant: the search without re.IGNORECASE
extract_url_CaseSensitive(text) ==
    IF Len(text) = 0 THEN None ELSE UrlSearch(text, text)

extract_url(text) ==
    IF Len(text) = 0 THEN None
    ELSE CHOOSE u \in { UrlSearch(text, lower) : lower \in {Lower(text)} } : TRUE

\* text.split(): the whitespace-separated words of the text
RECURSIVE Split(_)
Split(s) ==
    LET t == LStrip(s)
    IN IF Len(t) = 0 THEN <<>>
       ELSE LET w == UpToSpace(t)
            IN <<w>> \o Split(SliceFrom(t, Len(w)))

\* re.match(r"^\d{2}:\d{2}$", w)
IsTimeFormat(w) ==
    /\ Len(w) = 5
    /\ IsDigitChar(CharAt(w, 1)) /\ IsDigitChar(CharAt(w, 2))
    /\ CharAt(w, 3) = ":"
    /\ IsDigitChar(CharAt(w, 4)) /\ IsDigitChar(CharAt(w, 5))


\* ------------------------------------------------------------------ inputs
\* Message bodies the transport delivers (Body form field).
Bodies ==
    { "skip", " Skip ", "history",
      "progress did 10 pushups", "progress read this",
      "here: https://img.example/a.jpg", "see HTTP://EX.AM/P ok", "https://" }

FirstBodies ==
    { "", "Hi", "Alex", "Run 5k",
      "progress did 10 pushups", "here: https://img.example/a.jpg" }

FirstMedias == { <<"0", None>> }

PairBodies ==
    { "progress did 10 pushups", "here: https://img.example/a.jpg" }

\* the goal and reminder commands, and one progress message
SettingsBodies ==
    { "goal Run 10k", "goal hike daily", "goal",
      "reminder 09:00", "reminder 9:00", "reminder 29:99",
      "progress did 10 pushups" }

\* onboarding, progress and proof, for the runs in which the store fails
FaultBodies ==
    { "Alex", "progress did 10 pushups", "here: https://img.example/a.jpg" }

\* the keyword commands
KeywordBodies ==
    { "help", "Hi", "goal Run 10k", "progress did 10 pushups", "skip",
      "status", "history", "reminder 09:00" }

MediaRef == "https://api.twilio.example/Media/ME1"

\* (NumMedia, MediaUrl0) form fields.
Medias ==
    { <<"0", None>>, <<"1", MediaRef>>, <<"1", None>>, <<"x", None>> }

PairMedias == { <<"0", None>> }

\* ------------------------------------------------------------------- state
VARIABLES
    users,      \* table users: phone -> row, for the phones that have a row
    progress,   \* table progress: sequence of rows, row i has id i
    today,      \* today_utc()
    reqs,       \* requests in flight, per slot: form fields, position, loaded user
    last        \* the last completed exchange: request and reply

vars == <<users, progress, today, reqs, last>>

IdleReq == [pc |-> "idle"]

NoExchange == [From |-> None, day |-> NoDate, reply |-> [kind |-> None]]

\* faulty variant: the row is created with the column default state
NewUser_ColumnDefaultState ==
    [ name |-> None, goal |-> None, points |-> 0, streak |-> 0,
      last_update |-> NoDate, state |-> "idle",
      reminder_time |-> "21:00" ]

\* get_or_create_user's User(...) with the column defaults of class User
NewUser ==
    [ name |-> None, goal |-> None, points |-> 0, streak |-> 0,
      last_update |-> NoDate, state |-> "awaiting_name",
      reminder_time |-> "21:00" ]

\* Progress(phone=, date=, entry_text=) with the column defaults of class Progress
NewProgress(phone, date, entry_text) ==
    [ phone |-> phone, date |-> date, entry_text |-> entry_text,
      proof_url |-> None, proof_status |-> "pending", points_awarded |-> 0 ]

Init ==
    /\ users = <<>>
    /\ progress = <<>>
    /\ today = FirstDay
    /\ reqs = [r \in Slots |-> IdleReq]
    /\ last = NoExchange

\* a user after the onboarding exchange ("Alex", then "Run 5k")
Onboarded == [NewUser EXCEPT !.name = "Alex", !.goal = "Run 5k", !.state = "idle"]

InitIdle ==
    /\ users = ("+100" :> Onboarded)
    /\ progress = <<>>
    /\ today = FirstDay
    /\ reqs = [r \in Slots |-> IdleReq]
    /\ last = NoExchange

\* both users after their onboarding exchanges
InitPair ==
    /\ users = [p \in Phones |-> Onboarded]
    /\ progress = <<>>
    /\ today = FirstDay
    /\ reqs = [r \in Slots |-> IdleReq]
    /\ last = NoExchange

\* ----------------------------------------------------------------- queries
Max(S) == CHOOSE x \in S : \A y \in S : y <= x

PendingIds(rows, phone, date) ==
    { i \in 1..Len(rows) : /\ rows[i].phone = phone
                           /\ rows[i].date = date
                           /\ rows[i].proof_status = "pending" }

\* faulty variant: the query without the filter on proof_status
get_pending_progress_for_today_AnyStatus(rows, phone, date) ==
    LET ids == { i \in 1..Len(rows) : rows[i].phone = phone /\ rows[i].date = date }
    IN IF ids = {} THEN 0 ELSE Max(ids)

\* faulty variant: the query without the filter on date
get_pending_progress_for_today_AnyDate(rows, phone, date) ==
    LET ids == { i \in 1..Len(rows) : /\ rows[i].phone = phone
                                      /\ rows[i].proof_status = "pending" }
    IN IF ids = {} THEN 0 ELSE Max(ids)

\* id of the row returned, 0 for None
get_pending_progress_for_today(rows, phone, date) ==
    LET ids == PendingIds(rows, phone, date)
    IN IF ids = {} THEN 0 ELSE Max(ids)

\* ids ordered by a key descending (equal keys: lower id first), first n
RECURSIVE TopBy(_, _, _)
TopBy(ids, key, n) ==
    IF ids = {} \/ n = 0 THEN <<>>
    ELSE LET best == CHOOSE i \in ids :
                        \A j \in ids : \/ key[j] < key[i]
                                       \/ key[j] = key[i] /\ i <= j
         IN <<best>> \o TopBy(ids \ {best}, key, n - 1)

Badge(status) ==
    IF status = "approved" THEN "approved"
    ELSE IF status = "pending" THEN "pending" ELSE "rejected"

HistoryLines(rows, phone) ==
    LET ids == { i \in 1..Len(rows) : rows[i].phone = phone }
        top == TopBy(ids, [i \in ids |-> rows[i].date], HistoryLimit)
    IN [k \in 1..Len(top) |->
           [ date |-> rows[top[k]].date, entry_text |-> rows[top[k]].entry_text,
             badge |-> Badge(rows[top[k]].proof_status) ]]

\* ----------------------------------------------------------------- replies
Reply(kind) == [kind |-> kind, lines |-> <<>>]

ReplyLines(kind, lines) == [kind |-> kind, lines |-> lines]

\* What one run of the handler body leaves behind: the user object as the
\* handler last assigned it, the progress rows, and the reply.
Out(user, rows, reply) == [user |-> user, progress |-> rows, reply |-> reply]

\* Python truthiness of an optional string
Truthy(s) == s # None /\ Len(s) > 0

\* ------------------------------------------------- conversation states
\* 1) Awaiting name
HandleAwaitingName(user, rows, text) ==
    Out([user EXCEPT !.name = IF Len(text) > 0 THEN text ELSE None,
                     !.state = "awaiting_goal"],
        rows, Reply("ask_goal"))

\* 2) Awaiting goal
HandleAwaitingGoal(user, rows, text) ==
    IF Len(text) > 0
    THEN Out([user EXCEPT !.goal = text, !.state = "idle"], rows,
             Reply("goal_stored"))
    ELSE Out(user, rows, Reply("ask_goal_again"))

\* the try/except ValueError block choosing the media proof
MediaProofLink(NumMedia, MediaUrl0) ==
    IF Len(NumMedia) = 0 THEN None
    ELSE IF ~IntParses(NumMedia) THEN None
    ELSE IF IntValue(NumMedia) > 0 /\ Truthy(MediaUrl0) THEN MediaUrl0
    ELSE None

ProofLink(text, NumMedia, MediaUrl0) ==
    LET m == MediaProofLink(NumMedia, MediaUrl0)
    IN IF Truthy(m) THEN m ELSE extract_url(text)

\* faulty variant: the approval forgets points_awarded
ApproveRow_NoPoints(row, link) ==
    [row EXCEPT !.proof_url = link, !.proof_status = "approved"]

ApproveRow(row, link) ==
    [row EXCEPT !.proof_url = link, !.proof_status = "approved",
                !.points_awarded = ProofPoints]

\* faulty variant: the approval leaves user.points alone
HandleAwaitingProof_PointsNotAdded(phone, user, rows, day, text, NumMedia, MediaUrl0) ==
    LET pending == get_pending_progress_for_today(rows, phone, day)
        link == ProofLink(text, NumMedia, MediaUrl0)
    IN IF pending = 0
       THEN Out([user EXCEPT !.state = "idle"], rows, Reply("no_pending_reset"))
       ELSE IF ~Truthy(link)
       THEN Out(user, rows, Reply("waiting_for_proof"))
       ELSE Out([user EXCEPT !.state = "idle"],
                [rows EXCEPT ![pending] = ApproveRow(@, link)],
                Reply("proof_verified"))

\* 3) Awaiting proof
HandleAwaitingProof(phone, user, rows, day, text, NumMedia, MediaUrl0) ==
    LET pending == get_pending_progress_for_today(rows, phone, day)
        link == ProofLink(text, NumMedia, MediaUrl0)
    IN IF pending = 0
       THEN Out([user EXCEPT !.state = "idle"], rows, Reply("no_pending_reset"))
       ELSE IF ~Truthy(link)
       THEN Out(user, rows, Reply("waiting_for_proof"))
       ELSE Out([user EXCEPT !.points = @ + ProofPoints, !.state = "idle"],
                [rows EXCEPT ![pending] = ApproveRow(@, link)],
                Reply("proof_verified"))

\* ------------------------------------------------------- commands / idle
\* the condition of the "image or link sent in idle" branch
IdleProofSent(text, NumMedia) ==
    \/ Len(NumMedia) > 0 /\ IsDigit(NumMedia) /\ IntValue(NumMedia) > 0
    \/ Truthy(extract_url(text))

\* The if/elif chain of the command section: the first condition that holds
\* names the branch taken.
CommandBranch(lower, text, NumMedia) ==
    IF Contains(lower, "help") THEN "help"
    ELSE IF Contains(lower, "hello") \/ Contains(lower, "hi") THEN "hello"
    ELSE IF StartsWith(lower, "goal") THEN "goal"
    ELSE IF StartsWith(lower, "progress") THEN "progress"
    ELSE IF Strip(lower) = "skip" THEN "skip"
    ELSE IF Contains(lower, "status") THEN "status"
    ELSE IF Contains(lower, "history") THEN "history"
    ELSE IF Contains(lower, "summary") THEN "summary"
    ELSE IF Contains(lower, "leaderboard") THEN "leaderboard"
    ELSE IF StartsWith(lower, "reminder") THEN "reminder"
    ELSE IF IdleProofSent(text, NumMedia) THEN "proof"
    ELSE "unknown"

\* lower = text.lower(), computed once
CommandOf(text, NumMedia) ==
    CHOOSE cmd \in { CommandBranch(lower, text, NumMedia) : lower \in {Lower(text)} } : TRUE

CmdGoal(user, rows, text) ==
    LET goal_text == Strip(SliceFrom(text, GoalPrefixLen))
    IN IF Len(goal_text) > 0
       THEN Out([user EXCEPT !.goal = goal_text], rows, Reply("goal_saved"))
       ELSE Out(user, rows, Reply("goal_missing"))

\* faulty variant: no check of last_update, every progress message is logged
CmdProgress_NoDateCheck(phone, user, rows, day, text) ==
    LET entry_text == Strip(SliceFrom(text, ProgressPrefixLen))
    IN Out([user EXCEPT !.streak = @ + 1, !.last_update = day,
                        !.state = "awaiting_proof"],
           Append(rows, NewProgress(phone, day,
                    IF Len(entry_text) > 0 THEN entry_text
                    ELSE "No details provided.")),
           Reply("progress_logged"))

\* faulty variant: the row is added but the user object is left as loaded
CmdProgress_UserNotUpdated(phone, user, rows, day, text) ==
    LET entry_text == Strip(SliceFrom(text, ProgressPrefixLen))
        pending == get_pending_progress_for_today(rows, phone, day)
    IN IF user.last_update = day
       THEN IF pending # 0
            THEN Out([user EXCEPT !.state = "awaiting_proof"], rows,
                     Reply("already_logged_send_proof"))
            ELSE Out(user, rows, Reply("already_reported"))
       ELSE Out(user,
                Append(rows, NewProgress(phone, day,
                         IF Len(entry_text) > 0 THEN entry_text
                         ELSE "No details provided.")),
                Reply("progress_logged"))

\* faulty variant: the new-entry branch forgets user.state = "awaiting_proof"
CmdProgress_KeepsIdle(phone, user, rows, day, text) ==
    LET entry_text == Strip(SliceFrom(text, ProgressPrefixLen))
        pending == get_pending_progress_for_today(rows, phone, day)
    IN IF user.last_update = day
       THEN IF pending # 0
            THEN Out([user EXCEPT !.state = "awaiting_proof"], rows,
                     Reply("already_logged_send_proof"))
            ELSE Out(user, rows, Reply("already_reported"))
       ELSE Out([user EXCEPT !.streak = @ + 1, !.last_update = day],
                Append(rows, NewProgress(phone, day,
                         IF Len(entry_text) > 0 THEN entry_text
                         ELSE "No details provided.")),
                Reply("progress_logged"))

CmdProgress(phone, user, rows, day, text) ==
    LET entry_text == Strip(SliceFrom(text, ProgressPrefixLen))
        pending == get_pending_progress_for_today(rows, phone, day)
    IN IF user.last_update = day
       THEN IF pending # 0
            THEN Out([user EXCEPT !.state = "awaiting_proof"], rows,
                     Reply("already_logged_send_proof"))
            ELSE Out(user, rows, Reply("already_reported"))
       ELSE Out([user EXCEPT !.streak = @ + 1, !.last_update = day,
                             !.state = "awaiting_proof"],
                Append(rows, NewProgress(phone, day,
                         IF Len(entry_text) > 0 THEN entry_text
                         ELSE "No details provided.")),
                Reply("progress_logged"))

CmdSkip(phone, user, rows, day) ==
    LET pending == get_pending_progress_for_today(rows, phone, day)
    IN IF pending # 0
       THEN Out([user EXCEPT !.state = "idle"],
                [rows EXCEPT ![pending].proof_status = "rejected"],
                Reply("skipped"))
       ELSE Out(user, rows, Reply("nothing_to_skip"))

CmdHistory(phone, user, rows) ==
    LET lines == HistoryLines(rows, phone)
    IN IF Len(lines) = 0
       THEN Out(user, rows, Reply("no_history"))
       ELSE Out(user, rows, ReplyLines("history", lines))

SummaryDays == 7

CmdSummary(phone, user, rows, day) ==
    LET last_7 == day - (SummaryDays - 1)
        ids == { i \in 1..Len(rows) : rows[i].phone = phone /\ rows[i].date >= last_7 }
        checkins == Cardinality(ids)
    IN IF checkins = 0
       THEN Out(user, rows, Reply("no_summary"))
       ELSE Out(user, rows,
                ReplyLines("summary",
                    << [checkins |-> checkins,
                        \* round(checkins / 7 * 100, 1), in tenths of a percent
                        percent |-> (2000 * checkins + SummaryDays) \div (2 * SummaryDays)] >>))

LeaderboardLimit == 10

\* top 10 of table users by points, given the rows the query sees
CmdLeaderboard(user, rows, table) ==
    LET order == CHOOSE f \in [1..Cardinality(DOMAIN table) -> DOMAIN table] :
                     \A a, b \in DOMAIN f : a # b => f[a] # f[b]
        ids == DOMAIN order
        top == TopBy(ids, [i \in ids |-> table[order[i]].points], LeaderboardLimit)
    IN IF Len(top) = 0
       THEN Out(user, rows, Reply("no_leaderboard"))
       ELSE Out(user, rows,
                ReplyLines("leaderboard",
                    [k \in 1..Len(top) |->
                        [ phone |-> order[top[k]],
                          points |-> table[order[top[k]]].points,
                          streak |-> table[order[top[k]]].streak ]]))

CmdReminder(user, rows, text) ==
    LET parts == Split(text)
    IN IF Len(parts) >= 2 /\ IsTimeFormat(parts[2])
       THEN Out([user EXCEPT !.reminder_time = parts[2]], rows,
                Reply("reminder_set"))
       ELSE Out(user, rows, Reply("reminder_format"))

\* image or link sent in idle: late proof if a pending row exists.  int() of a
\* NumMedia that is not a number raises; the handler's except clause answers.
CmdLateProof(phone, user, rows, day, text, NumMedia, MediaUrl0) ==
    LET pending == get_pending_progress_for_today(rows, phone, day)
        media == IntValue(NumMedia) > 0 /\ Truthy(MediaUrl0)
        link == IF media THEN MediaUrl0 ELSE extract_url(text)
    IN IF pending = 0
       THEN Out(user, rows, Reply("thanks_saved"))
       ELSE IF Len(NumMedia) > 0 /\ ~IntParses(NumMedia)
       THEN Out(user, rows, Reply("error"))
       ELSE Out([user EXCEPT !.points = @ + ProofPoints, !.state = "idle"],
                [rows EXCEPT ![pending] = ApproveRow(@, link)],
                Reply("proof_verified_late"))

HandleCommand(phone, user, rows, table, day, text, NumMedia, MediaUrl0) ==
    LET cmd == CommandOf(text, NumMedia)
    IN CASE cmd = "help" -> Out(user, rows, Reply("help"))
         [] cmd = "hello" -> Out(user, rows, Reply("hello"))
         [] cmd = "goal" -> CmdGoal(user, rows, text)
         [] cmd = "progress" -> CmdProgress(phone, user, rows, day, text)
         [] cmd = "skip" -> CmdSkip(phone, user, rows, day)
         [] cmd = "status" -> Out(user, rows, Reply("status"))
         [] cmd = "history" -> CmdHistory(phone, user, rows)
         [] cmd = "summary" -> CmdSummary(phone, user, rows, day)
         [] cmd = "leaderboard" -> CmdLeaderboard(user, rows, table)
         [] cmd = "reminder" -> CmdReminder(user, rows, text)
         [] cmd = "proof" ->
                CmdLateProof(phone, user, rows, day, text, NumMedia, MediaUrl0)
         [] OTHER -> Out(user, rows, Reply("unknown"))

\* faulty variant: no awaiting_proof branch, the commands answer in that state
HandleText_NoProofState(phone, user, rows, table, day, text, NumMedia, MediaUrl0) ==
    IF user.state = "awaiting_name"
    THEN HandleAwaitingName(user, rows, text)
    ELSE IF user.state = "awaiting_goal"
    THEN HandleAwaitingGoal(user, rows, text)
    ELSE HandleCommand(phone, user, rows, table, day, text, NumMedia, MediaUrl0)

\* faulty variant: help and the greeting are answered before the state is
\* looked at
HandleText_KeywordsFirst(phone, user, rows, table, day, text, NumMedia, MediaUrl0) ==
    IF CommandOf(text, NumMedia) \in {"help", "hello"}
    THEN HandleCommand(phone, user, rows, table, day, text, NumMedia, MediaUrl0)
    ELSE IF user.state = "awaiting_name"
    THEN HandleAwaitingName(user, rows, text)
    ELSE IF user.state = "awaiting_goal"
    THEN HandleAwaitingGoal(user, rows, text)
    ELSE IF user.state = "awaiting_proof"
    THEN HandleAwaitingProof(phone, user, rows, day, text, NumMedia, MediaUrl0)
    ELSE HandleCommand(phone, user, rows, table, day, text, NumMedia, MediaUrl0)

\* The body of whatsapp_reply after get_or_create_user, text = Body.strip():
\* state branches first, then the commands.
HandleText(phone, user, rows, table, day, text, NumMedia, MediaUrl0) ==
    IF user.state = "awaiting_name"
    THEN HandleAwaitingName(user, rows, text)
    ELSE IF user.state = "awaiting_goal"
    THEN HandleAwaitingGoal(user, rows, text)
    ELSE IF user.state = "awaiting_proof"
    THEN HandleAwaitingProof(phone, user, rows, day, text, NumMedia, MediaUrl0)
    ELSE HandleCommand(phone, user, rows, table, day, text, NumMedia, MediaUrl0)

HandleMessage(phone, user, rows, table, day, Body, NumMedia, MediaUrl0) ==
    CHOOSE out \in { HandleText(phone, user, rows, table, day, text, NumMedia, MediaUrl0) :
                        text \in {Strip(Body)} } : TRUE

\* ----------------------------------------------------------------- actions
UserFields == DOMAIN NewUser

\* db.commit(): the UPDATE carries the attributes whose value the handler
\* changed on its loaded object; the other columns keep what the table holds.
CommitUser(row, loaded, assigned) ==
    [f \in UserFields |-> IF assigned[f] # loaded[f] THEN assigned[f] ELSE row[f]]

\* the table after get_or_create_user(db, phone)
WithUser(table, phone) ==
    IF phone \in DOMAIN table THEN table ELSE (phone :> NewUser) @@ table

\* the request and the reply, as the handler logs them
Exchange(phone, body, media, day, reply) ==
    [ From |-> phone, Body |-> body, NumMedia |-> media[1],
      MediaUrl0 |-> media[2], day |-> day, reply |-> reply ]

\* POST /whatsapp handled from the first line to the reply with nothing in
\* between.
Receive(phone, body, media) ==
    /\ \A r \in Slots : reqs[r].pc = "idle"
    /\ \E table \in {WithUser(users, phone)} :
       \E out \in {HandleMessage(phone, table[phone], progress, table, today,
                                 body, media[1], media[2])} :
          /\ users' = [table EXCEPT ![phone] = CommitUser(@, table[phone], out.user)]
          /\ progress' = out.progress
          /\ last' = Exchange(phone, body, media, today, out.reply)
    /\ UNCHANGED <<today, reqs>>

\* POST /whatsapp, first step: get_or_create_user loads the row, or inserts
\* it and commits.
get_or_create_user(r, phone, body, media) ==
    /\ reqs[r].pc = "idle"
    /\ users' = WithUser(users, phone)
    /\ reqs' = [reqs EXCEPT ![r] =
                  [ pc |-> "dispatch", From |-> phone, Body |-> body,
                    media |-> media, user |-> users'[phone] ]]
    /\ UNCHANGED <<progress, today, last>>

\* faulty variant: the second step reads the user row again
whatsapp_reply_FreshRead(r) ==
    /\ reqs[r].pc = "dispatch"
    /\ \E q \in {reqs[r]} :
       \E out \in {HandleMessage(q.From, users[q.From], progress, users, today,
                                 q.Body, q.media[1], q.media[2])} :
          /\ users' = [users EXCEPT ![q.From] = CommitUser(@, users[q.From], out.user)]
          /\ progress' = out.progress
          /\ last' = Exchange(q.From, q.Body, q.media, today, out.reply)
    /\ reqs' = [reqs EXCEPT ![r] = IdleReq]
    /\ UNCHANGED today

\* POST /whatsapp, second step: branch, commit, reply, close the session.
whatsapp_reply(r) ==
    /\ reqs[r].pc = "dispatch"
    /\ \E q \in {reqs[r]} :
       \E out \in {HandleMessage(q.From, q.user, progress, users, today,
                                 q.Body, q.media[1], q.media[2])} :
          /\ users' = [users EXCEPT ![q.From] = CommitUser(@, q.user, out.user)]
          /\ progress' = out.progress
          /\ last' = Exchange(q.From, q.Body, q.media, today, out.reply)
    /\ reqs' = [reqs EXCEPT ![r] = IdleReq]
    /\ UNCHANGED today

\* Midnight UTC passes.
Tick ==
    /\ today < MaxDay
    /\ today' = today + 1
    /\ UNCHANGED <<users, progress, reqs, last>>

\* From the empty tables: one user, the onboarding and progress vocabulary,
\* one message at a time.
Next ==
    \/ \E body \in FirstBodies, media \in FirstMedias : Receive("+100", body, media)
    \/ Tick

Spec == Init /\ [][Next]_vars

\* The same with the handler in its two steps, one request in flight at a
\* time.
NextSteps ==
    \/ /\ \A r \in Slots : reqs[r].pc = "idle"
       /\ \E body \in FirstBodies, media \in FirstMedias :
              get_or_create_user(1, "+100", body, media)
    \/ \E r \in Slots : whatsapp_reply(r)
    \/ Tick

SpecSteps == Init /\ [][NextSteps]_vars

\* An onboarded user, the full vocabulary, one message at a time.
NextIdle ==
    \/ \E body \in Bodies, media \in Medias : Receive("+100", body, media)
    \/ Tick

SpecIdle == InitIdle /\ [][NextIdle]_vars

\* Two users sharing the tables, a short vocabulary, one message at a time.
NextPair ==
    \/ \E phone \in Phones, body \in PairBodies, media \in PairMedias :
           Receive(phone, body, media)
    \/ Tick

SpecPair == InitPair /\ [][NextPair]_vars

\* An onboarded user, the goal and reminder vocabulary, one message at a time.
NextSettings ==
    \/ \E body \in SettingsBodies, media \in FirstMedias : Receive("+100", body, media)
    \/ Tick

SpecSettings == InitIdle /\ [][NextSettings]_vars

\* From the empty tables, the keyword commands sent in every state, one
\* message at a time.
NextKeywords ==
    \/ \E body \in KeywordBodies, media \in FirstMedias : Receive("+100", body, media)
    \/ Tick

SpecKeywords == Init /\ [][NextKeywords]_vars

\* An onboarded user and two requests of that user in flight: each in its
\* own session, each in the handler's two steps, in any interleaving.
NextRace ==
    \/ \E r \in Slots, body \in PairBodies, media \in PairMedias :
           get_or_create_user(r, "+100", body, media)
    \/ \E r \in Slots : whatsapp_reply(r)
    \/ Tick

SpecRace == InitIdle /\ [][NextRace]_vars

\* ------------------------------------------------------- the store raising
\* the reply of the except clause: the apology, status 200
Apology == Reply("error")

\* The replies formatted from attributes of the user object after db.commit():
\* the session expires the object on commit (sessionmaker's default), so
\* formatting them reads the row again.
ReadsAfterCommit ==
    { "ask_goal", "goal_stored", "proof_verified", "progress_logged",
      "reminder_set", "proof_verified_late" }

\* faulty variant: the reply is produced before the commit that raises
ReceiveStoreRaises_AfterReply(phone, body, media) ==
    /\ \A r \in Slots : reqs[r].pc = "idle"
    /\ \E table \in {WithUser(users, phone)} :
       \E out \in {HandleMessage(phone, table[phone], progress, table, today,
                                 body, media[1], media[2])} :
          /\ users' = table
          /\ last' = Exchange(phone, body, media, today, out.reply)
    /\ UNCHANGED <<progress, today, reqs>>

\* POST /whatsapp when a query or a commit raises, up to and including the
\* branch's commit: the except clause answers and db.close() drops what the
\* session had not committed.  An unknown identity's row is there or not,
\* as get_or_create_user's own commit came before the failure or not.
ReceiveStoreRaises(phone, body, media) ==
    /\ \A r \in Slots : reqs[r].pc = "idle"
    /\ \E table \in {users, WithUser(users, phone)} : users' = table
    /\ last' = Exchange(phone, body, media, today, Apology)
    /\ UNCHANGED <<progress, today, reqs>>

\* POST /whatsapp when the read that follows the branch's commit raises: the
\* commit stands and the except clause answers.
ReceiveRefreshRaises(phone, body, media) ==
    /\ \A r \in Slots : reqs[r].pc = "idle"
    /\ \E table \in {WithUser(users, phone)} :
       \E out \in {HandleMessage(phone, table[phone], progress, table, today,
                                 body, media[1], media[2])} :
          /\ out.reply.kind \in ReadsAfterCommit
          /\ users' = [table EXCEPT ![phone] = CommitUser(@, table[phone], out.user)]
          /\ progress' = out.progress
          /\ last' = Exchange(phone, body, media, today, Apology)
    /\ UNCHANGED <<today, reqs>>

\* From the empty tables, one message at a time, the store raising at any
\* point of any message.
NextFaults ==
    \/ \E body \in FaultBodies, media \in FirstMedias : Receive("+100", body, media)
    \/ \E body \in FaultBodies, media \in FirstMedias :
           ReceiveStoreRaises("+100", body, media)
    \/ \E body \in FaultBodies, media \in FirstMedias :
           ReceiveRefreshRaises("+100", body, media)
    \/ Tick

SpecFaults == Init /\ [][NextFaults]_vars

TypeOK ==
    /\ DOMAIN users \subseteq Phones
    /\ today \in FirstDay..MaxDay
    /\ \A p \in DOMAIN users :
          /\ users[p].points \in Nat /\ users[p].streak \in Nat
          /\ users[p].last_update \in {NoDate} \cup (FirstDay..MaxDay)
    /\ \A i \in 1..Len(progress) :
          /\ progress[i].phone \in DOMAIN users
          /\ progress[i].date \in FirstDay..MaxDay
          /\ progress[i].proof_status \in {"pending", "approved", "rejected"}

\* -------------------------------------------------------------- properties
ConversationStates == {"awaiting_name", "awaiting_goal", "awaiting_proof", "idle"}

StateMoves ==
    { <<"awaiting_name", "awaiting_goal">>, <<"awaiting_goal", "idle">>,
      <<"idle", "awaiting_proof">>, <<"awaiting_proof", "idle">> }

DatesLogged(p) == { progress[i].date : i \in { j \in 1..Len(progress) : progress[j].phone = p } }

\* C2: a step raises a user's streak by at most 1, and only when the user's
\* last_update was not today, setting it to today; last_update changes in no
\* other way and today never goes back, so no date sees two increments; the
\* streak never exceeds the number of dates the user has an entry for.
C2_StreakOncePerDate ==
    /\ [](\A p \in DOMAIN users : users[p].streak <= Cardinality(DatesLogged(p)))
    /\ [][/\ today' >= today
          /\ \A p \in DOMAIN users :
               LET d == users'[p].streak - users[p].streak
               IN /\ d \in {0, 1}
                  /\ d = 1 => /\ users[p].last_update # today
                              /\ users'[p].last_update = today
                              /\ today' = today
                  /\ users'[p].last_update # users[p].last_update => d = 1]_vars

\* a second progress message on a date already counted, on the second date
C2_Witness ==
    /\ last.reply.kind = "already_reported"
    /\ last.day = today
    /\ users[last.From].streak = 2

\* C3: for every user and date at most one progress row is pending.
C3_OnePendingPerUserDate ==
    \A p \in Phones, d \in FirstDay..MaxDay :
        Cardinality(PendingIds(progress, p, d)) <= 1

\* both users have a pending row for today
C3_Witness ==
    \A p \in Phones : PendingIds(progress, p, today) # {}

MessageHandled == today' = today /\ reqs' = reqs

\* the message carries an attached media item: a positive count and the first
\* item's reference
CarriesMedia(x) ==
    /\ IsDigit(x.NumMedia) /\ DigitsValue(x.NumMedia) > 0
    /\ x.MediaUrl0 # None

\* the text contains http:// or https:// (in any case) followed by a character
\* that is not whitespace
ContainsUrl(body) ==
    \E i \in 1..Len(body) :
        \E scheme \in {"http://", "https://"} :
            /\ i + Len(scheme) <= Len(body)
            /\ Lower(SubSeq(body, i, i + Len(scheme) - 1)) = scheme
            /\ CharAt(body, i + Len(scheme)) # " "

\* row i of the table is the only row that changed, and it became approved
\* with the fixed award
OnlyRowApproved(i) ==
    /\ Len(progress') = Len(progress)
    /\ \A j \in 1..Len(progress) : j # i => progress'[j] = progress[j]
    /\ progress'[i].proof_status = "approved"
    /\ progress'[i].points_awarded = ProofPoints
    /\ progress'[i].phone = progress[i].phone
    /\ progress'[i].date = progress[i].date
    /\ progress'[i].entry_text = progress[i].entry_text

\* C5: for a user in awaiting_proof with a pending row for today, a message is
\* accepted as proof exactly when it carries media or its text contains a URL;
\* accepted: that row alone becomes approved with 100 points, the user's
\* points rise by 100 and the state becomes idle; not accepted: the rows, the
\* user's points and the state stay as they were.
C5_ProofAcceptance ==
    [][MessageHandled =>
        LET p == last'.From
            ids == PendingIds(progress, p, today)
        IN (p \in DOMAIN users /\ users[p].state = "awaiting_proof" /\ ids # {}) =>
             IF CarriesMedia(last') \/ ContainsUrl(last'.Body)
             THEN /\ last'.reply.kind = "proof_verified"
                  /\ \E i \in ids : OnlyRowApproved(i)
                  /\ users'[p].points = users[p].points + ProofPoints
                  /\ users'[p].state = "idle"
             ELSE /\ last'.reply.kind = "waiting_for_proof"
                  /\ progress' = progress
                  /\ users'[p].points = users[p].points
                  /\ users'[p].state = users[p].state]_vars

\* a second proof accepted on the text's URL alone
C5_Witness ==
    /\ last.reply.kind = "proof_verified"
    /\ last.NumMedia = "0"
    /\ users[last.From].points = 2 * ProofPoints

\* C6: in awaiting_proof with a pending row for today, the text "skip" (no
\* media, no URL) turns that row rejected with 0 points, leaves the user's
\* points alone and sets the state to idle.
C6_SkipRejects ==
    [][MessageHandled =>
        LET p == last'.From
            ids == PendingIds(progress, p, today)
        IN (/\ p \in DOMAIN users /\ users[p].state = "awaiting_proof" /\ ids # {}
            /\ Strip(last'.Body) = "skip" /\ ~CarriesMedia(last')) =>
             /\ \E i \in ids : /\ progress'[i].proof_status = "rejected"
                               /\ progress'[i].points_awarded = 0
             /\ users'[p].points = users[p].points
             /\ users'[p].state = "idle"]_vars

\* C7: the first message of an unknown identity only creates the user and is
\* answered with the prompt for the name; the message that finds the user in
\* awaiting_name is stored as the name and answered with the prompt for the
\* goal; a non-empty message that finds the user in awaiting_goal is stored
\* as the goal and leaves the user idle.
C7_OnboardingFlow ==
    [][MessageHandled =>
        LET p == last'.From
            text == Strip(last'.Body)
        IN /\ p \notin DOMAIN users =>
                /\ users'[p].name = None
                /\ users'[p].state = "awaiting_name"
                /\ last'.reply.kind = "ask_name"
           /\ (p \in DOMAIN users /\ users[p].state = "awaiting_name") =>
                /\ users'[p].name = (IF Len(text) > 0 THEN text ELSE None)
                /\ users'[p].state = "awaiting_goal"
                /\ last'.reply.kind = "ask_goal"
           /\ (p \in DOMAIN users /\ users[p].state = "awaiting_goal" /\ Len(text) > 0) =>
                /\ users'[p].goal = text
                /\ users'[p].state = "idle"]_vars

IsProgressText(body) == StartsWith(Lower(Strip(body)), "progress")

\* the step logged progress for p: streak + 1, last_update = today, one more
\* row, pending, for today, with no points, and the state awaiting_proof
ProgressLogged(p) ==
    /\ users'[p].streak = users[p].streak + 1
    /\ users'[p].last_update = today
    /\ users'[p].state = "awaiting_proof"
    /\ Len(progress') = Len(progress) + 1
    /\ SubSeq(progress', 1, Len(progress)) = progress
    /\ LET row == progress'[Len(progress')]
       IN /\ row.phone = p /\ row.date = today
          /\ row.proof_status = "pending" /\ row.points_awarded = 0

\* C8 as stated: for an idle user with last_update other than today, every
\* message whose text starts with "progress" logs progress.
C8_EveryProgressTextLogs ==
    [][MessageHandled =>
        LET p == last'.From
        IN (/\ p \in DOMAIN users /\ users[p].state = "idle"
            /\ users[p].last_update # today
            /\ StartsWith(Strip(last'.Body), "progress")) => ProgressLogged(p)]_vars

\* C8, the part the code meets: for an idle user with last_update other than
\* today, every message whose text starts with "progress" (in any case) and
\* contains none of "help", "hello", "hi" logs progress.
C8_UnshadowedProgressTextLogs ==
    [][MessageHandled =>
        LET p == last'.From
            lower == Lower(Strip(last'.Body))
        IN (/\ p \in DOMAIN users /\ users[p].state = "idle"
            /\ users[p].last_update # today
            /\ StartsWith(lower, "progress")
            /\ ~Contains(lower, "help") /\ ~Contains(lower, "hello")
            /\ ~Contains(lower, "hi")) =>
               ProgressLogged(p) /\ last'.reply.kind = "progress_logged"]_vars

\* progress logged on a second date
C8_Witness ==
    /\ last.reply.kind = "progress_logged"
    /\ last.day = today
    /\ users[last.From].streak = 2

\* the step handles a "progress ..." message of the user whose "progress ..."
\* message was the last one handled, on the same date
SecondProgress ==
    /\ MessageHandled
    /\ last.From = last'.From /\ last.day = today
    /\ IsProgressText(last.Body) /\ IsProgressText(last'.Body)

\* C9 as stated: the second of two "progress ..." messages in a row on one
\* date is answered "already logged", leaves the streak and adds no row.
C9_SecondProgressAlreadyLogged ==
    [][SecondProgress =>
        /\ last'.reply.kind \in {"already_reported", "already_logged_send_proof"}
        /\ users'[last'.From].streak = users[last'.From].streak
        /\ Len(progress') = Len(progress)]_vars

\* C9 amended: when the first message logged progress, the second leaves the
\* streak and adds no row; it is answered as a proof attempt: the reprompt
\* for proof with nothing else changed, or, carrying media or a URL, the
\* proof-verified reply; never "already logged".
C9_SecondProgressIsProofAttempt ==
    [][(SecondProgress /\ last.reply.kind = "progress_logged") =>
        /\ users'[last'.From].streak = users[last'.From].streak
        /\ Len(progress') = Len(progress)
        /\ IF CarriesMedia(last') \/ ContainsUrl(last'.Body)
           THEN last'.reply.kind = "proof_verified"
           ELSE /\ last'.reply.kind = "waiting_for_proof"
                /\ users' = users /\ progress' = progress]_vars

\* a "progress ..." message answered with the reprompt for proof
C9_Witness ==
    /\ last.reply.kind = "waiting_for_proof"
    /\ IsProgressText(last.Body)
    /\ last.day = today
    /\ users[last.From].last_update = today

\* the lines list rows of p, newest date first, at most 7, each with the
\* marker of its row's status
IsHistoryOf(lines, p) ==
    /\ Len(lines) <= HistoryLimit
    /\ Len(lines) <= Cardinality({ i \in 1..Len(progress) : progress[i].phone = p })
    /\ \A k \in 1..Len(lines) :
          \E i \in 1..Len(progress) :
              /\ progress[i].phone = p
              /\ lines[k].date = progress[i].date
              /\ lines[k].entry_text = progress[i].entry_text
              /\ lines[k].badge = progress[i].proof_status
    /\ \A k \in 1..(Len(lines) - 1) : lines[k].date >= lines[k + 1].date

\* C10: for an idle user the text "history" is answered with the history
\* listing (the no-history notice when the user has no rows), never with
\* another command's reply.
C10_HistoryAnswered ==
    [][MessageHandled =>
        LET p == last'.From
        IN (/\ p \in DOMAIN users /\ users[p].state = "idle"
            /\ Strip(last'.Body) = "history") =>
              IF \E i \in 1..Len(progress) : progress[i].phone = p
              THEN /\ last'.reply.kind = "history"
                   /\ Len(last'.reply.lines) > 0
                   /\ IsHistoryOf(last'.reply.lines, p)
              ELSE last'.reply.kind = "no_history"]_vars

\* the user row of p is left as it was but for the fields in F
UserKeptExcept(p, F) ==
    \A f \in UserFields \ F : users'[p][f] = users[p][f]

\* C11: for an idle user, a message "goal T" with T non-empty stores T as the
\* goal and leaves state, points, streak, last_update and the rows as they
\* were; with nothing non-empty after the prefix the goal stays and the
\* reprompt is returned.
C11_GoalStored ==
    [][MessageHandled =>
        LET p == last'.From
            text == Strip(last'.Body)
            T == Strip(SliceFrom(text, 4))
        IN (/\ p \in DOMAIN users /\ users[p].state = "idle"
            /\ StartsWith(text, "goal")
            /\ (text = "goal" \/ StartsWith(text, "goal "))) =>
              /\ progress' = progress
              /\ UserKeptExcept(p, {"goal"})
              /\ IF Len(T) > 0
                 THEN users'[p].goal = T /\ last'.reply.kind = "goal_saved"
                 ELSE /\ users'[p].goal = users[p].goal
                      /\ last'.reply.kind = "goal_missing"]_vars

\* HH:MM with HH in 00..23 and MM in 00..59
IsStrictTime(x) ==
    /\ IsTimeFormat(x)
    /\ DigitsValue(SubSeq(x, 1, 2)) <= 23
    /\ DigitsValue(SubSeq(x, 4, 5)) <= 59

\* C12: for an idle user, "reminder X" stores X as reminder_time exactly
\* when X is a strict 24-hour HH:MM; for every other X reminder_time stays
\* and the format reprompt is returned.
C12_ReminderStrictTime ==
    [][MessageHandled =>
        LET p == last'.From
            text == Strip(last'.Body)
            X == Strip(SliceFrom(text, 8))
        IN (/\ p \in DOMAIN users /\ users[p].state = "idle"
            /\ StartsWith(text, "reminder ")) =>
              IF IsStrictTime(X)
              THEN users'[p].reminder_time = X /\ last'.reply.kind = "reminder_set"
              ELSE /\ users'[p].reminder_time = users[p].reminder_time
                   /\ last'.reply.kind = "reminder_format"]_vars

\* the change a reply announces is in the tables
Persisted(p, kind, text) ==
    CASE kind = "ask_goal" ->
            /\ users'[p].state = "awaiting_goal"
            /\ users'[p].name = (IF Len(text) > 0 THEN text ELSE None)
      [] kind = "goal_stored" ->
            users'[p].state = "idle" /\ users'[p].goal = text
      [] kind = "no_pending_reset" -> users'[p].state = "idle"
      [] kind = "progress_logged" -> ProgressLogged(p)
      [] kind \in {"proof_verified", "proof_verified_late"} ->
            /\ users'[p].state = "idle"
            /\ users'[p].points = users[p].points + ProofPoints
            /\ \E i \in PendingIds(progress, p, today) : OnlyRowApproved(i)
      [] OTHER -> TRUE

ReplyKinds ==
    { "ask_goal", "goal_stored", "ask_goal_again", "no_pending_reset",
      "waiting_for_proof", "proof_verified", "help", "hello", "goal_saved",
      "goal_missing", "already_logged_send_proof", "already_reported",
      "progress_logged", "skipped", "nothing_to_skip", "status", "history",
      "no_history", "summary", "no_summary", "leaderboard", "no_leaderboard",
      "reminder_set", "reminder_format", "thanks_saved", "proof_verified_late",
      "unknown", "error" }

C20_NothingPersistedOnFailure ==
    [][MessageHandled =>
        LET p == last'.From
        IN last'.reply.kind = "error" =>
             /\ progress' = progress
             /\ \/ users' = users
                \/ p \notin DOMAIN users /\ users' = (p :> NewUser) @@ users]_vars

\* the state the handler finds the sender in: a row created by this request
\* is in awaiting_name
StateFound(p) == IF p \in DOMAIN users THEN users[p].state ELSE "awaiting_name"

RowFound(p) == IF p \in DOMAIN users THEN users[p] ELSE NewUser

C15_RaceLogsTwice ==
    [][\A r \in Slots :
         (/\ reqs[r].pc = "dispatch" /\ reqs'[r].pc = "idle"
          /\ CommandOf(Strip(reqs[r].Body), reqs[r].media[1]) = "progress"
          /\ reqs[r].user.state = "idle"
          /\ reqs[r].user.last_update # today) =>
            LET p == reqs[r].From
            IN /\ Len(progress') = Len(progress) + 1
               /\ progress'[Len(progress')].phone = p
               /\ progress'[Len(progress')].date = today
               /\ progress'[Len(progress')].proof_status = "pending"
               /\ users'[p].streak = reqs[r].user.streak + 1
               /\ last'.reply.kind = "progress_logged"]_vars

\* two pending rows of one user for today, both requests done
C15_Witness ==
    /\ Cardinality(PendingIds(progress, "+100", today)) = 2
    /\ \A r \in Slots : reqs[r].pc = "idle"

\* no row is removed, and a row changes at most in the fields F and only
\* while it is pending
RowsChangeOnlyIn(F) ==
    /\ Len(progress') >= Len(progress)
    /\ \A i \in 1..Len(progress) :
          /\ \A f \in DOMAIN progress[i] \ F : progress'[i][f] = progress[i][f]
          /\ progress'[i] # progress[i] => progress[i].proof_status = "pending"

ApprovedIds(rows, p) ==
    { i \in 1..Len(rows) : rows[i].phone = p /\ rows[i].proof_status = "approved" }

\* C17: each user's points are 100 times the number of that user's approved
\* rows; points change only in a step that approves a row of that user, and
\* never decrease.
C17_PointsMatchApprovals ==
    /\ [](\A p \in DOMAIN users :
            users[p].points = ProofPoints * Cardinality(ApprovedIds(progress, p)))
    /\ [][\A p \in DOMAIN users :
            /\ users'[p].points >= users[p].points
            /\ (users'[p].points # users[p].points
                  <=> ApprovedIds(progress', p) # ApprovedIds(progress, p))]_vars

\* both users have points, one of them for two approved rows
C17_Witness ==
    /\ DOMAIN users = Phones
    /\ users["+100"].points = 2 * ProofPoints
    /\ users["+200"].points = ProofPoints

\* C18: an idle user has no pending row for today; so "skip" from an idle
\* user is answered that nothing is pending, and a URL or media from an idle
\* user approves nothing.
C18_IdleHasNoPending ==
    /\ [](\A p \in DOMAIN users :
            users[p].state = "idle" => PendingIds(progress, p, today) = {})
    /\ [][MessageHandled =>
            LET p == last'.From
                lower == Lower(Strip(last'.Body))
            IN (p \in DOMAIN users /\ users[p].state = "idle") =>
                 /\ lower = "skip" =>
                       /\ last'.reply.kind = "nothing_to_skip"
                       /\ progress' = progress /\ users' = users
                 /\ (CarriesMedia(last') \/ ContainsUrl(last'.Body)) =>
                       /\ ApprovedIds(progress', p) = ApprovedIds(progress, p)
                       /\ users'[p].points = users[p].points
                       /\ last'.reply.kind \notin
                             {"proof_verified", "proof_verified_late"}]_vars

\* "skip" from an idle user who logged and proved today
C18_Witness ==
    /\ last.reply.kind = "nothing_to_skip"
    /\ users[last.From].state = "idle"
    /\ users[last.From].last_update = today
    /\ last.day = today

\* C19: a pending row of an earlier date is never written again; a message
\* that finds its sender in awaiting_proof with no pending row for today
\* resets the state to idle and changes no row and no points, whatever proof
\* it carries.
C19_StalePendingUntouched ==
    [][/\ \A i \in 1..Len(progress) :
             (progress[i].date < today /\ progress[i].proof_status = "pending")
                => progress'[i] = progress[i]
       /\ MessageHandled =>
            LET p == last'.From
            IN (/\ p \in DOMAIN users /\ users[p].state = "awaiting_proof"
                /\ PendingIds(progress, p, today) = {}) =>
                  /\ last'.reply.kind = "no_pending_reset"
                  /\ users'[p].state = "idle"
                  /\ UserKeptExcept(p, {"state"})
                  /\ progress' = progress]_vars

\* the reset answered to a message carrying media, the row of the earlier
\* date still pending
C19_Witness ==
    /\ last.reply.kind = "no_pending_reset"
    /\ CarriesMedia(last)
    /\ last.day = today
    /\ \E i \in 1..Len(progress) :
          /\ progress[i].phone = last.From
          /\ progress[i].date < today
          /\ progress[i].proof_status = "pending"
          /\ progress[i].points_awarded = 0

====
